---- MODULE Spec2Model ----
(***************************************************************************)
(* Model of homework.py: the Telegram bot that polls the Practicum         *)
(* homework API and relays status changes.                                *)
(*                                                                         *)
(* A Python str is a sequence of chunks (TLA+ strings).  The characters    *)
(* that str/repr treat specially (newline, backslash, the two quotes) are  *)
(* always chunks of their own, so that repr() can be computed as Python    *)
(* computes it.  The Russian literals of the source are transliterated.    *)
(***************************************************************************)
EXTENDS Naturals, Sequences, FiniteSets, TLC

\* ------------------------------------------------------------------ str

\* Python's None: a value different from every str.
None == <<"<None>">>

NL == "\n"
BS == "\\"
SQ == "'"
DQ == "\""

RECURSIVE Flatten(_)
\* ''.join(parts)
Flatten(parts) ==
    IF parts = <<>> THEN <<>> ELSE Head(parts) \o Flatten(Tail(parts))

\* sub in text
Contains(text, sub) ==
    \E i \in 0..(Len(text) - Len(sub)) :
        \A j \in 1..Len(sub) : text[i + j] = sub[j]

HasChunk(s, c) == \E i \in 1..Len(s) : s[i] = c

\* The quote character repr() of a str picks: double quotes only when the
\* str holds a single quote and no double quote.
ReprQuote(s) == IF HasChunk(s, SQ) /\ ~HasChunk(s, DQ) THEN DQ ELSE SQ

\* repr() of one character inside quotes q.
ReprChunk(c, q) ==
    IF c = BS THEN <<BS, BS>>
    ELSE IF c = NL THEN <<BS, "n">>
    ELSE IF c = q THEN <<BS, q>>
    ELSE <<c>>

\* repr(s) for a str s.
Repr(s) ==
    LET q == ReprQuote(s)
    IN <<q>> \o Flatten([i \in 1..Len(s) |-> ReprChunk(s[i], q)]) \o <<q>>

\* ------------------------------------------------------- module constants

RETRY_PERIOD == 600

ENDPOINT == "https://practicum.yandex.ru/api/user_api/homework_statuses/"

\* HTTPStatus.OK
HTTP_OK == 200

HOMEWORK_VERDICTS ==
    (<<"approved">> :> <<"Rabota proverena: revyueru vsyo ponravilos. Ura!">>)
    @@ (<<"reviewing">> :> <<"Rabota vzyata na proverku revyuerom.">>)
    @@ (<<"rejected">> :> <<"Rabota proverena: u revyuera est zamechaniya.">>)

REQUIRED_ENV_VARS == {"PRACTICUM_TOKEN", "TELEGRAM_TOKEN", "TELEGRAM_CHAT_ID"}

\* ------------------------------------------------------------ exceptions

\* str(error): KeyError with one argument prints the repr of the argument;
\* JSONDecodeError appends the position; every other exception raised here
\* prints its message.
KeyErrorStr(msg) == Repr(msg)

JSONDecodeErrorStr(msg, lineno, colno, pos) ==
    msg \o <<": line ", ToString(lineno), " column ", ToString(colno),
             " (char ", ToString(pos), ")">>

Raise(type, text) == [ok |-> FALSE, type |-> type, text |-> text]
Return(value) == [ok |-> TRUE, value |-> value]

\* ----------------------------------------------------------- JSON values

JStr(s) == [t |-> "str", s |-> s]
JList(items) == [t |-> "list", items |-> items]
JDict(d) == [t |-> "dict", d |-> d]
JNull == [t |-> "null"]

EmptyDict == [k \in {} |-> None]

\* dict.get(key)
Get(d, key) == IF key \in DOMAIN d THEN d[key] ELSE None

\* f'{value}' for a decoded JSON string.
Format(value) == value.s

\* ------------------------------------------------------------ API Client

\* Variant: the body is decoded before the status code is looked at.
GetApiAnswerDecodesFirst(timestamp, http) ==
    IF http.raised
    THEN Raise("ConnectionError",
               <<"Endpoint [", ENDPOINT, "] nedostupen.", NL,
                 ">>> Net soedineniya s serverom.">>)
    ELSE IF ~http.body.json
    THEN Raise("JSONDecodeError",
               JSONDecodeErrorStr(
                   <<"Otvet ne sootvetstvuet ozhidaemomu tipu dannyh: <type no JSON>",
                     NL, ">>> ">> \o http.body.msg,
                   http.body.lineno, http.body.colno, http.body.pos))
    ELSE IF http.status_code # HTTP_OK
    THEN Raise("FailedRequest",
               <<"Endpoint [", ENDPOINT, "] nedostupen.", NL,
                 ">>> Kod otveta API: [", ToString(http.status_code), "].">>)
    ELSE Return(http.body.value)

\* get_api_answer(timestamp).  http is what requests.get and response.json
\* do for this call: [raised] when the transport fails, else the status
\* code and the body, a body being either decoded JSON [json, value] or the
\* decoder's error [json, msg, lineno, colno, pos].
GetApiAnswer(timestamp, http) ==
    IF http.raised
    THEN Raise("ConnectionError",
               <<"Endpoint [", ENDPOINT, "] nedostupen.", NL,
                 ">>> Net soedineniya s serverom.">>)
    ELSE IF http.status_code # HTTP_OK
    THEN Raise("FailedRequest",
               <<"Endpoint [", ENDPOINT, "] nedostupen.", NL,
                 ">>> Kod otveta API: [", ToString(http.status_code), "].">>)
    ELSE IF ~http.body.json
    THEN Raise("JSONDecodeError",
               JSONDecodeErrorStr(
                   <<"Otvet ne sootvetstvuet ozhidaemomu tipu dannyh: <type no JSON>",
                     NL, ">>> ">> \o http.body.msg,
                   http.body.lineno, http.body.colno, http.body.pos))
    ELSE Return(http.body.value)

\* ----------------------------------------------------- Response Validator

\* Variant: the last element of the list is returned ([-1] for [0]).
CheckResponseReturnsLast(response) ==
    IF response.t # "dict"
    THEN Raise("TypeError",
               <<"Otvet ne sootvetstvuet ozhidaemomu tipu dannyh: <type no dict>">>)
    ELSE IF "homeworks" \notin DOMAIN response.d
    THEN Raise("KeyError",
               KeyErrorStr(<<"Otvet ne soderzhit klyucha ", DQ, "homeworks", DQ>>))
    ELSE IF response.d["homeworks"].t # "list"
    THEN Raise("TypeError",
               <<"Otvet ne sootvetstvuet ozhidaemomu tipu dannyh: <type no list>">>)
    ELSE IF Len(response.d["homeworks"].items) = 0
    THEN Raise("NoHomework", <<"Spisok domashnih rabot pust.">>)
    ELSE Return(response.d["homeworks"].items[Len(response.d["homeworks"].items)])

\* Variant: response.get('homeworks', []) in place of the key test, so a
\* payload without the key counts as holding no homework.
CheckResponseDefaultsToEmpty(response) ==
    IF response.t # "dict"
    THEN Raise("TypeError",
               <<"Otvet ne sootvetstvuet ozhidaemomu tipu dannyh: <type no dict>">>)
    ELSE IF "homeworks" \notin DOMAIN response.d
    THEN Raise("NoHomework", <<"Spisok domashnih rabot pust.">>)
    ELSE IF response.d["homeworks"].t # "list"
    THEN Raise("TypeError",
               <<"Otvet ne sootvetstvuet ozhidaemomu tipu dannyh: <type no list>">>)
    ELSE IF Len(response.d["homeworks"].items) = 0
    THEN Raise("NoHomework", <<"Spisok domashnih rabot pust.">>)
    ELSE Return(response.d["homeworks"].items[1])

\* check_response(response)
CheckResponse(response) ==
    IF response.t # "dict"
    THEN Raise("TypeError",
               <<"Otvet ne sootvetstvuet ozhidaemomu tipu dannyh: <type no dict>">>)
    ELSE IF "homeworks" \notin DOMAIN response.d
    THEN Raise("KeyError",
               KeyErrorStr(<<"Otvet ne soderzhit klyucha ", DQ, "homeworks", DQ>>))
    ELSE IF response.d["homeworks"].t # "list"
    THEN Raise("TypeError",
               <<"Otvet ne sootvetstvuet ozhidaemomu tipu dannyh: <type no list>">>)
    ELSE IF Len(response.d["homeworks"].items) = 0
    THEN Raise("NoHomework", <<"Spisok domashnih rabot pust.">>)
    ELSE Return(response.d["homeworks"].items[1])

\* ------------------------------------------------------- Status Formatter

\* Variant: homework_name is looked up before status.
ParseStatusNameFirst(homework) ==
    IF "homework_name" \notin DOMAIN homework.d
    THEN Raise("KeyError",
               KeyErrorStr(<<"Net klyucha ", DQ, "homework_name", DQ>>))
    ELSE IF "status" \notin DOMAIN homework.d
    THEN Raise("KeyError", KeyErrorStr(<<"Net klyucha ", DQ, "status", DQ>>))
    ELSE LET status == homework.d["status"]
             homework_name == homework.d["homework_name"]
         IN IF Format(status) \notin DOMAIN HOMEWORK_VERDICTS
            THEN Raise("KeyError",
                       KeyErrorStr(<<"Neozhidannyy status domashney raboty: ">>
                                   \o Format(status)))
            ELSE Return(<<"Izmenilsya status proverki raboty ", DQ>>
                        \o Format(homework_name)
                        \o <<DQ, ".", NL, ">>> ">>
                        \o HOMEWORK_VERDICTS[Format(status)])

\* parse_status(homework), homework a decoded JSON object.
ParseStatus(homework) ==
    IF "status" \notin DOMAIN homework.d
    THEN Raise("KeyError", KeyErrorStr(<<"Net klyucha ", DQ, "status", DQ>>))
    ELSE IF "homework_name" \notin DOMAIN homework.d
    THEN Raise("KeyError",
               KeyErrorStr(<<"Net klyucha ", DQ, "homework_name", DQ>>))
    ELSE LET status == homework.d["status"]
             homework_name == homework.d["homework_name"]
         IN IF Format(status) \notin DOMAIN HOMEWORK_VERDICTS
            THEN Raise("KeyError",
                       KeyErrorStr(<<"Neozhidannyy status domashney raboty: ">>
                                   \o Format(status)))
            ELSE Return(<<"Izmenilsya status proverki raboty ", DQ>>
                        \o Format(homework_name)
                        \o <<DQ, ".", NL, ">>> ">>
                        \o HOMEWORK_VERDICTS[Format(status)])

\* ---------------------------------------------------------- Notifier

\* Variant: no try/except around bot.send_message, the transport's
\* exception leaves send_message.
SendMessageRaises(message, transport) ==
    IF transport = "ok" THEN Return("True")
    ELSE Raise("TelegramError", <<"Timed out">>)

\* Variant: the except branch returns True as well.
SendMessageAlwaysTrue(message, transport) == Return("True")

\* Variant: the "return True" is missing.
SendMessageReturnsNone(message, transport) == Return("None")

\* send_message(bot, message).  transport is what bot.send_message does for
\* this call: "ok" or "fail" (it raises).  The function returns True after
\* a delivery and falls off its end, returning None, after a failure.
SendMessage(message, transport) ==
    IF transport = "ok" THEN Return("True") ELSE Return("None")

\* Variant: the result is tested with "is not False", which None passes.
TruthyUnlessFalse(value) == value # "False"

\* bool(value) of what send_message returned.
Truthy(value) == value = "True"

\* ---------------------------------------------------------- environment

MaxPolls == 3

\* Values of an environment variable: unset, empty, set.
EnvValues == {None, <<>>, <<"token">>}

StartTimes == {1700000000}

Statuses ==
    {<<"approved">>, <<"reviewing">>, <<"rejected">>,
     <<"in_progress">>, <<"in", NL, "progress">>}

HomeworkNames == {<<"hw1">>, <<"hw2">>}

\* A record with both fields.
Record(status, homework_name) ==
    JDict([k \in {"status", "homework_name"} |->
              IF k = "status" THEN JStr(status) ELSE JStr(homework_name)])

\* Submission records: JSON objects holding any of the two fields.
Records ==
    {Record(s, n) : s \in DOMAIN HOMEWORK_VERDICTS, n \in HomeworkNames}
    \cup {Record(s, <<"hw1">>) : s \in Statuses}
    \cup {JDict([k \in {"status"} |-> JStr(s)]) : s \in {<<"approved">>}}
    \cup {JDict([k \in {"homework_name"} |-> JStr(n)]) : n \in {<<"hw1">>}}
    \cup {JDict(EmptyDict)}

\* What follows element 0 in a longer list.
OlderRecords == {Record(<<"rejected">>, <<"hw0">>)}

\* The lists of one record, and some of two.
HomeworkLists ==
    {<<>>} \cup {<<r>> : r \in Records}
    \cup {<<r, o>> : r \in {Record(<<"approved">>, <<"hw1">>), JDict(EmptyDict)},
                     o \in OlderRecords}

\* Decoded payloads.
Payloads ==
    {JList(<<>>), JDict(EmptyDict),
     JDict([k \in {"current_date"} |-> JStr(<<"0">>)]),
     JDict([k \in {"homeworks"} |-> JStr(<<"none">>)])}
    \cup {JDict([k \in {"homeworks"} |-> JList(l)]) : l \in HomeworkLists}

Bodies ==
    {[json |-> FALSE, msg |-> <<"Expecting value">>,
      lineno |-> 1, colno |-> 1, pos |-> 0]}
    \cup {[json |-> TRUE, value |-> p] : p \in Payloads}

StatusCodes == {HTTP_OK, 404, 500}

\* Bodies that come with an error status.
ErrorBodies ==
    {b \in Bodies : ~b.json \/ b.value = JDict(EmptyDict)}

HttpResponses ==
    {[raised |-> TRUE]}
    \cup {[raised |-> FALSE, status_code |-> HTTP_OK, body |-> b] : b \in Bodies}
    \cup {[raised |-> FALSE, status_code |-> c, body |-> b] :
             c \in StatusCodes \ {HTTP_OK}, b \in ErrorBodies}

Transports == {"ok", "fail"}

\* What telegram.Bot(token=TELEGRAM_TOKEN) does with a token that is set:
\* it returns the bot, or raises telegram.error.InvalidToken.
BotOutcomes == {"Bot", "InvalidToken"}

\* ----------------------------------------------------------------- state

VARIABLES
    env,          \* the three module-level secrets read by os.getenv
    bot,          \* main's bot, once telegram.Bot has returned it
    pc,           \* position of main
    now,          \* time.time()
    timestamp,    \* main's timestamp
    last_msg,     \* main's last_msg dict
    message,      \* main's message
    propagating,  \* an exception is leaving main through the finally clause
    polls,        \* calls of get_api_answer so far
    sleeps,       \* calls of time.sleep so far
    request,      \* the last API call: its from_date and the time it was made
    started,      \* the time at which main passed check_tokens
    iter,         \* what the current iteration did
    prev,         \* what the iteration before it did
    delivered     \* per kind, the last text the transport delivered

vars == <<env, bot, pc, now, timestamp, last_msg, message, propagating, polls,
          sleeps, request, started, iter, prev, delivered>>

\* No http exchange.
NoHttp == [raised |-> TRUE, none |-> TRUE]

\* The record kept of one iteration: the http exchange, the payload
\* get_api_answer returned (JNull: it raised), the record check_response
\* returned (JNull: not reached, or it raised), the exception the try body
\* ended in ("none": it formatted a message), the text handed or to be
\* handed to send_message and its kind, the calls of send_message with what
\* was sent and what the transport did, and last_msg as it was when the
\* iteration began.
NoIteration ==
    [n |-> 0, http |-> NoHttp, response |-> JNull, homework |-> JNull,
     exc |-> "none", kind |-> "none", text |-> None, sent |-> <<>>,
     before |-> EmptyDict]

\* What is kept of an iteration once the next one has begun.
Past(it) == [it EXCEPT !.http = NoHttp, !.response = JNull]

\* Variant: the test is "is None", an empty value passes.
MissingTokensNoneOnly(e) == \E variable \in REQUIRED_ENV_VARS : e[variable] = None

\* check_tokens(): some required variable is unset or empty.
MissingTokens(e) == \E variable \in REQUIRED_ENV_VARS : e[variable] \in {None, <<>>}

\* Variant: the handler names the module's own exceptions only.
CatchesOwnExceptions(type) == type \in {"FailedRequest", "NoHomework"}

\* except Exception: the exception types main's handler catches.
Catches(type) ==
    type \in {"ConnectionError", "FailedRequest", "JSONDecodeError",
              "TypeError", "KeyError", "NoHomework", "TelegramError"}

\* Variant: every text is compared with the last error sent.
NoUpdatesSinceError(text, last, key) == text = Get(last, "error")

\* Variant: every text is compared with the last status message sent.
NoUpdatesSinceMessage(text, last, key) == text = Get(last, "message")

\* message == last_msg.get(key)
NoUpdates(text, last, key) == text = Get(last, key)

\* Variant: the report leaves the exception out.
ErrorReportWithoutError(error) == <<"Sboy v rabote programmy: ">>

\* f'Sboy v rabote programmy: {error}'
ErrorReport(error) == <<"Sboy v rabote programmy: ">> \o error.text

\* Variant: last_msg = {key: value}, a new dict with the one entry.
StoreAlone(d, key, value) == (key :> value)

\* last_msg[key] = value
Store(d, key, value) == (key :> value) @@ d

\* The try body up to the formatted message.
TryBody(ts, http) ==
    LET response == GetApiAnswer(ts, http)
    IN IF ~response.ok THEN response
       ELSE LET homework == CheckResponse(response.value)
            IN IF ~homework.ok THEN homework
               ELSE ParseStatus(homework.value)

\* Variant: the loop moves timestamp to the time of the next iteration.
NextTimestampNow(ts, clock) == clock

\* The timestamp the next iteration queries from.
NextTimestamp(ts, clock) == ts

Init ==
    /\ env \in [REQUIRED_ENV_VARS -> EnvValues]
    /\ bot = "unbound"
    /\ pc = "start"
    /\ now \in StartTimes
    /\ timestamp = 0
    /\ last_msg = EmptyDict
    /\ message = None
    /\ propagating = FALSE
    /\ polls = 0
    /\ sleeps = 0
    /\ request = [from_date |-> 0, at |-> 0]
    /\ started = 0
    /\ iter = NoIteration
    /\ prev = NoIteration
    /\ delivered = EmptyDict

\* main up to the loop: check_tokens exits; or telegram.Bot raises, which
\* nothing catches, and main ends before timestamp is taken; or the loop is
\* entered.
Startup ==
    /\ pc = "start"
    /\ IF MissingTokens(env)
       THEN /\ pc' = "fatal"
            /\ UNCHANGED <<bot, timestamp, started>>
       ELSE \E made \in BotOutcomes :
              IF made = "Bot"
              THEN /\ bot' = made
                   /\ pc' = "loop"
                   /\ timestamp' = now
                   /\ started' = now
              ELSE /\ pc' = "crashed"
                   /\ UNCHANGED <<bot, timestamp, started>>
    /\ UNCHANGED <<env, now, last_msg, message, propagating, polls, sleeps,
                   request, iter, prev, delivered>>

\* An exception raised in the try body reaches the handler: the report is
\* built and compared with the last one sent.
Handle(error, it) ==
    IF Catches(error.type)
    THEN LET report == ErrorReport(error)
         IN /\ message' = report
            /\ iter' = [it EXCEPT !.exc = error.type, !.kind = "error",
                                  !.text = report]
            /\ pc' = IF NoUpdates(report, last_msg, "error")
                     THEN "finally" ELSE "send_error"
            /\ UNCHANGED propagating
    ELSE /\ iter' = [it EXCEPT !.exc = error.type]
         /\ pc' = "finally"
         /\ propagating' = TRUE
         /\ UNCHANGED message

\* The record of iteration n as it begins: what get_api_answer and
\* check_response return for this exchange.
Begun(n, ts, http, last) ==
    LET api == GetApiAnswer(ts, http)
        checked == IF api.ok THEN CheckResponse(api.value) ELSE api
    IN [NoIteration EXCEPT
           !.n = n, !.before = last, !.http = http,
           !.response = IF api.ok THEN api.value ELSE JNull,
           !.homework = IF api.ok /\ checked.ok THEN checked.value ELSE JNull]

\* The try body of pass n, for this http exchange, up to the call of
\* send_message.
Pass(n, http) ==
    LET result == TryBody(timestamp, http)
        it == Begun(n, timestamp, http, last_msg)
    IN /\ request' = [from_date |-> timestamp, at |-> now]
       /\ IF result.ok
          THEN /\ message' = result.value
               /\ iter' = [it EXCEPT !.kind = "message",
                                     !.text = result.value]
               /\ pc' = IF NoUpdates(result.value, last_msg, "message")
                        THEN "finally" ELSE "send_message"
               /\ UNCHANGED propagating
          ELSE Handle(result, it)

\* One pass of the try body up to the call of send_message.
Poll ==
    /\ pc = "loop"
    /\ polls < MaxPolls
    /\ \E http \in HttpResponses : Pass(polls + 1, http)
    /\ polls' = polls + 1
    /\ prev' = Past(iter)
    /\ UNCHANGED <<env, bot, now, timestamp, last_msg, sleeps, started, delivered>>

\* if send_message(bot, message): last_msg['message'] = message
SendStatus ==
    /\ pc = "send_message"
    /\ \E transport \in Transports :
         LET r == SendMessage(message, transport)
             it == [iter EXCEPT !.sent = Append(@, <<message, transport>>)]
         IN /\ IF r.ok
               THEN /\ last_msg' = IF Truthy(r.value)
                                   THEN Store(last_msg, "message", message)
                                   ELSE last_msg
                    /\ pc' = "finally"
                    /\ iter' = it
                    /\ UNCHANGED <<message, propagating>>
               ELSE /\ Handle(r, it)
                    /\ UNCHANGED last_msg
            /\ delivered' = IF transport = "ok"
                            THEN ("message" :> message) @@ delivered
                            ELSE delivered
    /\ UNCHANGED <<env, bot, now, timestamp, polls, sleeps, request, started, prev>>

\* if send_message(bot, message): last_msg['error'] = message
SendError ==
    /\ pc = "send_error"
    /\ \E transport \in Transports :
         LET r == SendMessage(message, transport)
         IN /\ iter' = [iter EXCEPT !.sent = Append(@, <<message, transport>>)]
            /\ IF r.ok
               THEN /\ last_msg' = IF Truthy(r.value)
                                   THEN Store(last_msg, "error", message)
                                   ELSE last_msg
                    /\ UNCHANGED propagating
               ELSE /\ propagating' = TRUE
                    /\ UNCHANGED last_msg
            /\ delivered' = IF transport = "ok"
                            THEN ("error" :> message) @@ delivered
                            ELSE delivered
    /\ pc' = "finally"
    /\ UNCHANGED <<env, bot, now, timestamp, message, polls, sleeps, request,
                   started, prev>>

\* Variant: the sleep stands at the end of the loop body instead of in a
\* finally clause, so a "continue" goes round without sleeping.
FinallySkippedByContinue ==
    /\ pc = "finally"
    /\ IF iter.sent = <<>>
       THEN UNCHANGED <<now, sleeps>>
       ELSE /\ now' = now + RETRY_PERIOD
            /\ sleeps' = sleeps + 1
    /\ pc' = IF propagating THEN "crashed" ELSE "loop"
    /\ UNCHANGED <<env, bot, timestamp, last_msg, message, propagating, polls,
                   request, started, iter, prev, delivered>>

\* finally: time.sleep(RETRY_PERIOD), then the next pass of the loop, or
\* the exception goes on out of main.
Finally ==
    /\ pc = "finally"
    /\ now' = now + RETRY_PERIOD
    /\ sleeps' = sleeps + 1
    /\ pc' = IF propagating THEN "crashed" ELSE "loop"
    /\ timestamp' = NextTimestamp(timestamp, now')
    /\ UNCHANGED <<env, bot, last_msg, message, propagating, polls, request,
                   started, iter, prev, delivered>>

Next == Startup \/ Poll \/ SendStatus \/ SendError \/ Finally

Spec == Init /\ [][Next]_vars

\* main is one thread that runs on: whenever it has a next step it takes it.
FairSpec == Init /\ [][Next]_vars /\ WF_vars(Next)

\* ------------------------------------------------------------ properties

LoopPcs == {"loop", "send_message", "send_error", "finally"}

\* The iteration is over: it sleeps, or has slept and the next has not begun.
IterationDone == pc \in {"finally", "loop"}

\* The text was handed to send_message in iteration it, or is about to be.
HandedToNotifier(it, text) ==
    \/ it.sent # <<>> /\ it.sent[1][1] = text
    \/ it = iter /\ it.sent = <<>> /\ message = text
         /\ pc \in {"send_message", "send_error"}

\* iter and prev are two consecutive iterations that produced the same text
\* of the given kind.
SameTwice(kind) ==
    /\ prev.n >= 1
    /\ iter.n = prev.n + 1
    /\ prev.kind = kind
    /\ iter.kind = kind
    /\ prev.text = iter.text

DeliveryFailed(it) == \E i \in 1..Len(it.sent) : it.sent[i][2] = "fail"

\* The payload is a mapping whose homeworks field is a list.
ValidPayload(response) ==
    /\ response.t = "dict"
    /\ "homeworks" \in DOMAIN response.d
    /\ response.d["homeworks"].t = "list"

\* C1: in an iteration whose payload is valid with an empty homeworks list,
\* NoHomework is raised, send_message is not called and is not about to be,
\* and last_msg is what it was when the iteration began.
C1_EmptyListIsSilent ==
    (ValidPayload(iter.response) /\ iter.response.d["homeworks"].items = <<>>)
    => /\ iter.exc = "NoHomework"
       /\ iter.sent = <<>>
       /\ pc \notin {"send_message", "send_error"}
       /\ last_msg = iter.before

\* C2 as stated: two consecutive iterations that format the same status
\* message call send_message at most once between them, whatever the
\* deliveries did.
C2_AtMostOnceWhateverOutcome ==
    SameTwice("message") => Len(prev.sent) + Len(iter.sent) <= 1

\* C2 amended: two consecutive iterations that format the same status
\* message call send_message at most once between them unless the first
\* one's delivery failed; after a failed delivery the second iteration
\* hands the message to send_message again.
C2_AtMostOnceUnlessFailed ==
    SameTwice("message")
    => IF DeliveryFailed(prev)
       THEN /\ Len(prev.sent) = 1
            /\ HandedToNotifier(iter, iter.text)
            /\ Len(iter.sent) <= 1
       ELSE /\ Len(prev.sent) + Len(iter.sent) <= 1
            /\ iter.sent = <<>>
            /\ IterationDone

C2_Witness ==
    /\ SameTwice("message")
    /\ prev.sent = <<<<prev.text, "ok">>>>
    /\ iter.sent = <<>>
    /\ pc = "finally"

\* C3 as stated: two consecutive iterations that end in an exception with
\* the same error report call send_message at most once between them,
\* whatever the deliveries did.
C3_ErrorAtMostOnceWhateverOutcome ==
    SameTwice("error") => Len(prev.sent) + Len(iter.sent) <= 1

\* C3 amended: two consecutive iterations that end in an exception with the
\* same error report call send_message at most once between them unless
\* the first one's delivery failed; after a failed delivery the second
\* iteration hands the report to send_message again.
C3_ErrorAtMostOnceUnlessFailed ==
    SameTwice("error")
    => IF DeliveryFailed(prev)
       THEN /\ Len(prev.sent) = 1
            /\ HandedToNotifier(iter, iter.text)
            /\ Len(iter.sent) <= 1
       ELSE /\ Len(prev.sent) + Len(iter.sent) <= 1
            /\ iter.sent = <<>>
            /\ IterationDone

C3_Witness ==
    /\ SameTwice("error")
    /\ iter.exc = "ConnectionError"
    /\ prev.sent = <<<<prev.text, "ok">>>>
    /\ iter.sent = <<>>
    /\ pc = "finally"

\* C4: once in the loop main stays in it: no step leaves the loop's
\* positions (exit is taken only from the start), every iteration ends in
\* the sleep, and after the sleep the next step is a new API call.
C4_LoopNeverEnds ==
    [][/\ pc \in LoopPcs => pc' \in LoopPcs
       /\ pc' = "fatal" => pc = "start"
       /\ pc \in {"send_message", "send_error"} => pc' = "finally"
       /\ pc = "finally" => pc' = "loop" /\ sleeps' = sleeps + 1
       /\ pc = "loop" => polls' = polls + 1]_vars

C4_Witness ==
    /\ pc = "send_error"
    /\ iter.n = MaxPolls
    /\ iter.exc = "KeyError"
    /\ prev.exc = "ConnectionError"
    /\ DeliveryFailed(prev)

\* C5: when the transport fails in a call of send_message, for a status
\* message or an error report, no exception reaches main (no handler is
\* entered, nothing propagates), the iteration goes on to its sleep, and
\* last_msg is what it was before the call.
C5_DeliveryFailureIsSwallowed ==
    DeliveryFailed(iter)
    => /\ IterationDone
       /\ ~propagating
       /\ Len(iter.sent) = 1
       /\ iter.exc \notin {"TelegramError"}
       /\ last_msg = iter.before

C5_Witness ==
    /\ pc = "loop"
    /\ iter.kind = "error"
    /\ iter.sent = <<<<iter.text, "fail">>>>
    /\ prev.kind = "message"
    /\ prev.sent = <<<<prev.text, "fail">>>>
    /\ last_msg = EmptyDict

\* Some secret is unset or empty.
SecretMissing ==
    \/ env["PRACTICUM_TOKEN"] = None \/ env["PRACTICUM_TOKEN"] = <<>>
    \/ env["TELEGRAM_TOKEN"] = None \/ env["TELEGRAM_TOKEN"] = <<>>
    \/ env["TELEGRAM_CHAT_ID"] = None \/ env["TELEGRAM_CHAT_ID"] = <<>>

\* C6 as stated: after startup, main has exited exactly when a secret is
\* unset or empty, and then no API call and no send_message call has been
\* made; with the three secrets set main is in the loop.
C6_FatalIffSecretMissing ==
    pc # "start"
    => /\ pc = "fatal" <=> SecretMissing
       /\ pc = "fatal" => polls = 0 /\ sleeps = 0 /\ iter = NoIteration
                          /\ last_msg = EmptyDict
       /\ ~SecretMissing => pc \in LoopPcs

\* C6: after startup, main has exited through check_tokens exactly when a
\* secret is unset or empty, and then no API call and no send_message call
\* has been made; with the three secrets set main is in the loop once
\* telegram.Bot has returned the bot, and otherwise has ended with the
\* constructor's exception, again before any API call or send_message call.
C6_FatalIffSecretMissingLoopIffBot ==
    pc # "start"
    => /\ pc = "fatal" <=> SecretMissing
       /\ pc = "fatal" => /\ polls = 0 /\ sleeps = 0 /\ iter = NoIteration
                          /\ last_msg = EmptyDict /\ bot = "unbound"
       /\ ~SecretMissing
          => \/ bot = "Bot" /\ pc \in LoopPcs
             \/ /\ bot = "unbound" /\ pc = "crashed"
                /\ polls = 0 /\ sleeps = 0 /\ iter = NoIteration
                /\ last_msg = EmptyDict /\ timestamp = 0

C6_Witness ==
    /\ pc = "fatal"
    /\ env["PRACTICUM_TOKEN"] = <<"token">>
    /\ env["TELEGRAM_TOKEN"] = <<"token">>
    /\ env["TELEGRAM_CHAT_ID"] = <<>>

\* C7: between two API calls there is exactly one sleep of RETRY_PERIOD:
\* at the top of the loop as many sleeps as API calls have been made, inside
\* an iteration one fewer, and the n-th call is made n-1 periods after the
\* first.
C7_OneSleepPerIteration ==
    /\ pc = "loop" => sleeps = polls
    /\ pc \in {"send_message", "send_error", "finally"} => polls = sleeps + 1
    /\ pc \in LoopPcs /\ polls > 0
       => request.at = started + (polls - 1) * RETRY_PERIOD

\* An iteration that skipped a duplicate status message has slept, after one
\* whose error report was not delivered.
C7_Witness ==
    /\ pc = "loop"
    /\ sleeps = MaxPolls
    /\ iter.kind = "message"
    /\ iter.sent = <<>>
    /\ prev.kind = "error"
    /\ DeliveryFailed(prev)

\* C8 as stated: every API call has the time of the call as its from_date.
C8_FromDateIsTimeOfCall ==
    polls > 0 => request.from_date = request.at

\* C8 amended: every API call has as its from_date the time taken once at
\* startup, before the first iteration, not the time of the call: the n-th
\* call is made at least n-1 poll periods after its from_date.
C8_FromDateIsStartupTime ==
    polls > 0
    => /\ request.from_date = started
       /\ request.at >= request.from_date + (polls - 1) * RETRY_PERIOD

C8_Witness ==
    /\ polls = MaxPolls
    /\ request.from_date = started
    /\ request.at = started + (MaxPolls - 1) * RETRY_PERIOD

\* The first record of the payload has both fields and a status that is no
\* key of HOMEWORK_VERDICTS.
UnknownStatus(response) ==
    /\ ValidPayload(response)
    /\ response.d["homeworks"].items # <<>>
    /\ LET homework == response.d["homeworks"].items[1]
       IN /\ {"status", "homework_name"} \subseteq DOMAIN homework.d
          /\ homework.d["status"].s \notin DOMAIN HOMEWORK_VERDICTS

\* C9: when the first record's status is not in the catalog the iteration
\* ends in the formatter's KeyError, the error report contains the status
\* value, and the report is handed to send_message when it differs from the
\* last error sent.
C9_ReportContainsStatus ==
    UnknownStatus(iter.response)
    => /\ iter.exc = "KeyError"
       /\ iter.kind = "error"
       /\ Contains(iter.text, iter.response.d["homeworks"].items[1].d["status"].s)
       /\ iter.text # Get(iter.before, "error")
          => HandedToNotifier(iter, iter.text)

\* The report main builds when the homeworks list is empty.
EmptyListReport ==
    ErrorReport(CheckResponse(JDict([k \in {"homeworks"} |-> JList(<<>>)])))

\* C10: a payload that is a mapping without homeworks ends the iteration in
\* the validator's KeyError; the report is handed to send_message when it
\* differs from the last error sent, is not sent otherwise, and is not the
\* text produced for an empty homeworks list.
C10_MissingKeyReported ==
    (iter.response.t = "dict" /\ "homeworks" \notin DOMAIN iter.response.d)
    => /\ iter.exc = "KeyError"
       /\ iter.kind = "error"
       /\ iter.text # EmptyListReport
       /\ IF iter.text # Get(iter.before, "error")
          THEN HandedToNotifier(iter, iter.text)
          ELSE iter.sent = <<>> /\ IterationDone

C10_Witness ==
    /\ iter.response = JDict(EmptyDict)
    /\ iter.sent = <<<<iter.text, "ok">>>>
    /\ Get(last_msg, "error") = iter.text
    /\ prev.exc = "NoHomework"
    /\ prev.sent = <<<<EmptyListReport, "ok">>>>

\* The exceptions of the three components.
ApiErrors == {"ConnectionError", "FailedRequest", "JSONDecodeError"}

\* C11: for every payload get_api_answer returned, check_response gives one
\* outcome, decided in this order: TypeError "no dict" when the payload is
\* no mapping; KeyError when it has no homeworks; TypeError "no list" when
\* homeworks is no list; NoHomework when the list is empty; else it returns
\* element 0 of the list as it is, whatever follows it.
C11_ValidatorOutcome ==
    iter.response.t # "null"
    => LET r == iter.response
       IN IF r.t # "dict"
          THEN /\ iter.exc = "TypeError"
               /\ Contains(iter.text, <<"Otvet ne sootvetstvuet ozhidaemomu tipu dannyh: <type no dict>">>)
               /\ iter.homework = JNull
          ELSE IF "homeworks" \notin DOMAIN r.d
          THEN /\ iter.exc = "KeyError"
               /\ Contains(iter.text, <<"Otvet ne soderzhit klyucha ", DQ, "homeworks", DQ>>)
               /\ iter.homework = JNull
          ELSE IF r.d["homeworks"].t # "list"
          THEN /\ iter.exc = "TypeError"
               /\ Contains(iter.text, <<"Otvet ne sootvetstvuet ozhidaemomu tipu dannyh: <type no list>">>)
               /\ iter.homework = JNull
          ELSE IF r.d["homeworks"].items = <<>>
          THEN /\ iter.exc = "NoHomework"
               /\ iter.homework = JNull
          ELSE /\ iter.homework = Head(r.d["homeworks"].items)
               /\ iter.exc \notin {"TypeError", "NoHomework"}

C11_Witness ==
    /\ iter.response.t = "dict"
    /\ "homeworks" \in DOMAIN iter.response.d
    /\ iter.response.d["homeworks"].t = "list"
    /\ Len(iter.response.d["homeworks"].items) = 2
    /\ iter.homework = Record(<<"approved">>, <<"hw1">>)
    /\ iter.response.d["homeworks"].items[2] # iter.homework
    /\ prev.exc = "NoHomework"

\* C12: for every http exchange get_api_answer gives one outcome, decided
\* in this order: ConnectionError when the transport fails; FailedRequest
\* with the status code in its text when the status is not 200, whatever
\* the body; JSONDecodeError when the status is 200 and the body is no
\* JSON; else the decoded payload.  A payload is returned only for status
\* 200 with a JSON body.
C12_ApiClientOutcome ==
    iter.n > 0
    => LET h == iter.http
       IN /\ IF h.raised
             THEN iter.exc = "ConnectionError"
             ELSE IF h.status_code # 200
             THEN /\ iter.exc = "FailedRequest"
                  /\ Contains(iter.text, <<">>> Kod otveta API: [",
                                           ToString(h.status_code), "].">>)
             ELSE IF ~h.body.json
             THEN /\ iter.exc = "JSONDecodeError"
                  /\ Contains(iter.text, h.body.msg)
             ELSE /\ iter.response = h.body.value
                  /\ iter.exc \notin ApiErrors
          /\ iter.exc \in ApiErrors <=> iter.response = JNull
          /\ iter.response # JNull
             => ~h.raised /\ h.status_code = 200 /\ h.body.json

C12_Witness ==
    /\ iter.n > 0
    /\ ~iter.http.raised
    /\ iter.http.status_code = 404
    /\ ~iter.http.body.json
    /\ iter.exc = "FailedRequest"
    /\ prev.exc = "JSONDecodeError"

\* The two records have the same name and different statuses of the catalog.
SameNameOtherStatus(h1, h2) ==
    /\ h1.t = "dict" /\ h2.t = "dict"
    /\ {"status", "homework_name"} \subseteq DOMAIN h1.d
    /\ {"status", "homework_name"} \subseteq DOMAIN h2.d
    /\ h1.d["homework_name"] = h2.d["homework_name"]
    /\ h1.d["status"] # h2.d["status"]
    /\ h1.d["status"].s \in DOMAIN HOMEWORK_VERDICTS
    /\ h2.d["status"].s \in DOMAIN HOMEWORK_VERDICTS

\* C13: for every record handed to parse_status there is one outcome:
\* KeyError naming status when status is absent; else KeyError naming
\* homework_name when that is absent; else KeyError for an unexpected
\* status when the status is no key of the catalog; else a message holding
\* the homework name and the verdict the catalog maps the status to (for
\* approved, the approved verdict).  Two records with one name and two
\* statuses of the catalog give two messages.
C13_FormatterOutcome ==
    /\ iter.homework.t = "dict"
       => LET d == iter.homework.d
          IN IF "status" \notin DOMAIN d
             THEN /\ iter.exc = "KeyError"
                  /\ Contains(iter.text, <<"Net klyucha ", DQ, "status", DQ>>)
             ELSE IF "homework_name" \notin DOMAIN d
             THEN /\ iter.exc = "KeyError"
                  /\ Contains(iter.text, <<"Net klyucha ", DQ, "homework_name", DQ>>)
             ELSE IF d["status"].s \notin {<<"approved">>, <<"reviewing">>, <<"rejected">>}
             THEN /\ iter.exc = "KeyError"
                  /\ Contains(iter.text, <<"Neozhidannyy status domashney raboty: ">>)
             ELSE /\ iter.exc = "none"
                  /\ iter.kind = "message"
                  /\ Contains(iter.text, d["homework_name"].s)
                  /\ Contains(iter.text, HOMEWORK_VERDICTS[d["status"].s])
                  /\ d["status"].s = <<"approved">>
                     => Contains(iter.text,
                           <<"Rabota proverena: revyueru vsyo ponravilos. Ura!">>)
    /\ SameNameOtherStatus(prev.homework, iter.homework)
       => prev.text # iter.text

C13_Witness ==
    /\ SameNameOtherStatus(prev.homework, iter.homework)
    /\ iter.homework.d["status"].s = <<"approved">>
    /\ iter.homework.d["homework_name"].s = <<"hw2">>
    /\ iter.kind = "message"
    /\ prev.kind = "message"

\* C14: in an iteration that formats a status message: when the message is
\* the last one sent, send_message is not called and last_msg stays; else
\* send_message is called once, with that message, and last_msg['message']
\* becomes the message exactly when the transport delivers it.
C14_StatusNotification ==
    iter.kind = "message"
    => IF iter.text = Get(iter.before, "message")
       THEN /\ iter.sent = <<>>
            /\ IterationDone
            /\ last_msg = iter.before
       ELSE \/ /\ pc = "send_message"
               /\ message = iter.text
               /\ iter.sent = <<>>
               /\ last_msg = iter.before
            \/ /\ IterationDone
               /\ Len(iter.sent) = 1
               /\ iter.sent[1][1] = iter.text
               /\ iter.sent[1][2] = "ok"
                  => last_msg = ("message" :> iter.text) @@ iter.before
               /\ iter.sent[1][2] = "fail" => last_msg = iter.before

C14_Witness ==
    /\ iter.kind = "message"
    /\ prev.kind = "message"
    /\ prev.sent = <<<<prev.text, "ok">>>>
    /\ iter.text # prev.text
    /\ iter.sent = <<<<iter.text, "fail">>>>
    /\ Get(last_msg, "message") = prev.text

\* C15: in an iteration that ends in an exception other than NoHomework the
\* report is the fixed prefix followed by str() of the exception;
\* send_message is called with it, once, exactly when it differs from the
\* last error sent, and last_msg['error'] becomes the report exactly when
\* the transport delivers it.
C15_ErrorNotification ==
    iter.exc \notin {"none", "NoHomework"}
    => /\ iter.kind = "error"
       /\ iter.text = <<"Sboy v rabote programmy: ">>
                      \o TryBody(started, iter.http).text
       /\ IF iter.text = Get(iter.before, "error")
          THEN /\ iter.sent = <<>>
               /\ IterationDone
               /\ last_msg = iter.before
          ELSE \/ /\ pc = "send_error"
                  /\ message = iter.text
                  /\ iter.sent = <<>>
                  /\ last_msg = iter.before
               \/ /\ IterationDone
                  /\ Len(iter.sent) = 1
                  /\ iter.sent[1][1] = iter.text
                  /\ iter.sent[1][2] = "ok"
                     => last_msg = ("error" :> iter.text) @@ iter.before
                  /\ iter.sent[1][2] = "fail" => last_msg = iter.before

C15_Witness ==
    /\ iter.exc = "FailedRequest"
    /\ prev.exc = "FailedRequest"
    /\ prev.sent = <<<<prev.text, "ok">>>>
    /\ iter.text # prev.text
    /\ iter.sent = <<<<iter.text, "fail">>>>
    /\ Get(last_msg, "error") = prev.text

\* The text is a formatted status message.
IsStatusMessage(text) == Head(text) = "Izmenilsya status proverki raboty "

\* C16: send_message is called at most once in an iteration; after a
\* failed delivery of a status message the iteration is still one that
\* formatted a message: no handler runs and no error report is sent or about
\* to be sent.
C16_OneNotificationPerIteration ==
    /\ Len(iter.sent) <= 1
    /\ iter.sent # <<>> => IterationDone
    /\ (iter.sent # <<>> /\ iter.sent[1][2] = "fail"
          /\ IsStatusMessage(iter.sent[1][1]))
       => /\ iter.kind = "message"
          /\ iter.exc = "none"
          /\ message = iter.sent[1][1]

C16_Witness ==
    /\ pc = "loop"
    /\ iter.sent # <<>>
    /\ IsStatusMessage(iter.sent[1][1])
    /\ iter.sent[1][2] = "fail"
    /\ Len(prev.sent) = 1

\* C17: no step of an iteration that ended in an exception changes
\* last_msg['message'], no step of one that formatted a message changes
\* last_msg['error'], and no step removes an entry of last_msg.
C17_IndependentEntries ==
    [][/\ iter'.kind = "error"
          => Get(last_msg', "message") = Get(last_msg, "message")
       /\ iter'.kind = "message"
          => Get(last_msg', "error") = Get(last_msg, "error")
       /\ \A k \in DOMAIN last_msg :
             k \in DOMAIN last_msg' /\ last_msg'[k] # None]_vars

C17_Witness ==
    /\ DOMAIN last_msg = {"message", "error"}
    /\ iter.kind = "error"
    /\ iter.sent = <<<<iter.text, "ok">>>>
    /\ last_msg["error"] = iter.text
    /\ last_msg["message"] = prev.text

\* C18: each entry of last_msg is the text of the most recent delivery of
\* its kind that the transport carried out; a text whose delivery failed
\* and that was not delivered before is not in last_msg.
C18_LastSentWasDelivered ==
    /\ \A k \in DOMAIN last_msg :
          k \in DOMAIN delivered /\ last_msg[k] = delivered[k]
    /\ \A i \in 1..Len(iter.sent) :
          (iter.sent[i][2] = "fail"
             /\ iter.sent[i][1] # Get(iter.before, iter.kind))
          => Get(last_msg, iter.kind) # iter.sent[i][1]

C18_Witness ==
    /\ iter.kind = "message"
    /\ iter.sent = <<<<iter.text, "fail">>>>
    /\ "message" \in DOMAIN last_msg
    /\ last_msg["message"] # iter.text
    /\ last_msg["message"] = delivered["message"]
    /\ "error" \in DOMAIN last_msg

\* C19: send_message is never called, nor about to be called, with the
\* text last_msg holds for its kind; an iteration that produces the text
\* last sent for its kind calls nothing, whatever came between.
C19_NeverResendsLastSent ==
    /\ \A i \in 1..Len(iter.sent) :
          iter.sent[i][1] # Get(iter.before, iter.kind)
    /\ pc = "send_message" => message # Get(last_msg, "message")
    /\ pc = "send_error" => message # Get(last_msg, "error")
    /\ (iter.kind # "none" /\ iter.text = Get(iter.before, iter.kind))
       => iter.sent = <<>> /\ IterationDone

\* A delivered status message is formatted again after an error iteration.
C19_Witness ==
    /\ iter.n = MaxPolls
    /\ iter.kind = "message"
    /\ iter.text = Get(iter.before, "message")
    /\ prev.kind = "error"
    /\ Len(prev.sent) = 1
    /\ iter.sent = <<>>
    /\ pc = "loop"

\* C20: a pass that produces the text whose delivery failed in the pass
\* before hands it to send_message again; and in a run where from some pass
\* on every pass produces the text of the pass before it and from some pass
\* on no delivery fails, the text is in the end delivered and recorded in
\* last_msg, and stays so.
C20_FailedDeliveryIsRetried ==
    /\ [][(/\ pc = "loop"
           /\ iter.sent # <<>>
           /\ iter.sent[1] = <<iter.text, "fail">>
           /\ iter'.kind = iter.kind
           /\ iter'.text = iter.text)
          => /\ pc' = IF iter.kind = "message"
                      THEN "send_message" ELSE "send_error"
             /\ message' = iter.text]_vars
    /\ <>[](/\ SameTwice(iter.kind)
            /\ ~DeliveryFailed(iter))
       => <>[](/\ Get(last_msg, iter.kind) = iter.text
               /\ Get(delivered, iter.kind) = iter.text)

\* A text whose delivery failed in one pass was produced again and delivered
\* in the next.
C20_Witness ==
    /\ prev.kind = "error"
    /\ prev.sent = <<<<prev.text, "fail">>>>
    /\ iter.kind = "error"
    /\ iter.text = prev.text
    /\ iter.sent = <<<<iter.text, "ok">>>>
    /\ Get(last_msg, "error") = iter.text
    /\ pc = "loop"

====
